---------------------------- MODULE Spec2Model ----------------------------
(***************************************************************************)
(* The actuator-bus driver of yozakura_raspi (mbed/arm/dynamixel/MX28.cpp) *)
(* as a state machine.  One public method of one MX28 object runs at a     *)
(* time (the firmware is single threaded); a method issues protocol calls  *)
(* (write, read, trigger); a protocol call builds TxBuf, transmits it byte *)
(* by byte with putc and, when the object's _ID is not 0xFE, reads the     *)
(* status reply byte by byte with getc.                                    *)
(*                                                                         *)
(* char is the unsigned 8-bit char of the ARM toolchains the firmware is   *)
(* built with: a byte is a number in 0..255.                               *)
(***************************************************************************)
EXTENDS Integers, Sequences, FiniteSets, TLC

VARIABLES
    ID_,      \* _ID of every MX28 object (Dynamixel.h:188), set by the constructor
    pc,       \* "idle", "tx" (putc loop), "rx" (getc loop), "done" (method returned)
    call,     \* the public method that is running: [name, obj, flags]
    sub,      \* the protocol call it is in: [kind, ID, start, bytes]
    TxBuf,    \* the instruction packet built by the protocol call
    wire,     \* the bytes of TxBuf that putc has transmitted so far
    Status,   \* the bytes getc has delivered to the protocol call so far
    data,     \* the caller's data buffer of a read
    ret,      \* the value returned by the last write/read that returned
    rVal,     \* "int rVal" of the method: what its write returned
    result,   \* the value returned by the method
    rxq,      \* bytes that arrived on the link and were not read yet
    dev,      \* the actuators attached to the bus: goal register and staged goal
    oob,      \* the read of this method copied past the end of the caller's buffer
    encIn,    \* arguments of a direct call of a packet builder
    encOut,   \* the packet it built
    absOverload, \* the abs() the build resolves abs(speed) to: abs(int) or abs(float)
    wlog,     \* the write packets the running method has transmitted, in order
    \* SerialHalfDuplex (mbed/arm/SerialHalfDuplex/SerialHalfDuplex.cpp)
    irq,      \* interrupts are enabled (__enable_irq / __disable_irq)
    txpin,    \* function of _txpin: "input" (gpio) or "uart" (UART out)
    lpc,      \* the statement of _putc or _getc that runs next, "idle" outside them
    lc,       \* int c of _putc
    retc,     \* int retc of _putc
    rxbuf,    \* the receive buffer of the UART
    loopb,    \* the byte on the wire that has not looped back into rxbuf yet
    ltrace,   \* the steps the running _putc has performed, in order
    lret,     \* the value the last _putc or _getc returned
    \* the arm controller (mbed/arm/main.cpp)
    dx_relay, \* DigitalOut dx_relay: power of the actuators
    goals,    \* int goals[3]
    booted,   \* DxInitialize() has run, main is in its while (1) loop
    alog      \* what the last handler did on the bus and sent to the host

linkVars == <<irq, txpin, lpc, lc, retc, rxbuf, loopb, ltrace, lret>>

armVars == <<dx_relay, goals, booted, alog>>

driverVars == <<ID_, pc, call, sub, TxBuf, wire, Status, data, ret, rVal, result, rxq,
                dev, oob, encIn, encOut, absOverload, wlog>>

vars == <<driverVars, linkVars, armVars>>

---------------------------------------------------------------------------
(* Bounds of the model *)

\* largest byte count of a direct write() or read() call
MaxBytes == 2
\* largest angle handed to an angle setter
MaxDegrees == 360
\* a speed handed to SetCRSpeed is speed / SpeedDen, speed in -SpeedDen..SpeedDen
SpeedDen == 4
\* most bytes of the actuators that wait unread in the receive buffer
MaxRx == 2

\* how many times the arm controller steps a goal away from its home value
MaxGoalSteps == 1

---------------------------------------------------------------------------
(* Program constants *)

MX28_REG_ID == 3
MX28_REG_CW_LIMIT == 6
MX28_REG_CCW_LIMIT == 8
MX28_REG_TORQUE_ENABLE == 24
MX28_REG_GOAL_POSITION == 30
MX28_REG_MOVING_SPEED == 32
MX28_REG_TORQUE_LIMIT == 34
MX28_REG_POSITION == 36
MX28_REG_VOLTS == 42
MX28_REG_TEMP == 43
MX28_REG_MOVING == 46
MX28_REG_CURRENT == 68
BROADCAST == 254
INST_READ == 2
INST_WRITE == 3
INST_REG_WRITE == 4
INST_ACTION == 4

\* the MX28 objects (arm/main.cpp constructs two: pitch and yaw)
Objs == {1, 2}
None == "none"
\* an int that was not assigned yet, or a void result
NoValue == <<>>

---------------------------------------------------------------------------
(* C arithmetic *)

\* conversion of an int to char
Byte(x) == x % 256

\* conversion of an int to short
Short(x) == LET m == x % 65536 IN IF m >= 32768 THEN m - 65536 ELSE m

\* x & 0xff stored in a char
Lo(x) == x % 256

\* x >> 8 stored in a char
Hi(x) == Byte(x \div 256)

\* |x| of an int
Abs(x) == IF x < 0 THEN -x ELSE x

\* char sum = 0; sum += b for each b of s, in order
RECURSIVE SumBytes(_)
SumBytes(s) == IF s = <<>> THEN 0 ELSE Byte(SumBytes(SubSeq(s, 1, Len(s) - 1)) + s[Len(s)])

\* a slip: the two's complement of the sum instead of 0xFF - sum
Checksum_TwosComplement(s) == Byte(256 - SumBytes(s))

\* TxBuf[k] = 0xFF - sum
Checksum(s) == Byte(255 - SumBytes(s))

\* int division of C (towards zero)
CDiv(a, b) == IF a >= 0 THEN a \div b ELSE -((-a) \div b)

---------------------------------------------------------------------------
(* Packet builders: the part of write, read and trigger before the putc loop *)

\* a slip: the flag is ignored and every write is immediate
WriteInstr_Always3(flag) == INST_WRITE

\* MX28::write, "Instruction": reg-write when flag == 1, write otherwise
WriteInstr(flag) == IF flag = 1 THEN INST_REG_WRITE ELSE INST_WRITE

\* a slip: the length byte counts the data bytes but not the start address
writeTxBuf_Length2(ID, start, bytes, dat, flag) ==
    LET head == <<255, 255, Byte(ID), Byte(2 + bytes),
                  IF flag = 1 THEN INST_REG_WRITE ELSE INST_WRITE, Byte(start)>>
        body == head \o [i \in 1..bytes |-> Byte(dat[i])]
    IN  Append(body, Byte(255 - SumBytes(SubSeq(body, 3, Len(body)))))

\* MX28::write: TxBuf[0 .. 6+bytes]
writeTxBuf(ID, start, bytes, dat, flag) ==
    LET head == <<255, 255, Byte(ID), Byte(3 + bytes), WriteInstr(flag), Byte(start)>>
        body == head \o [i \in 1..bytes |-> Byte(dat[i])]
    IN  Append(body, Checksum(SubSeq(body, 3, Len(body))))

\* MX28::read: TxBuf[0 .. 7]
readTxBuf(ID, start, bytes) ==
    LET body == <<255, 255, Byte(ID), 4, INST_READ, Byte(start), Byte(bytes)>>
    IN  Append(body, Checksum(SubSeq(body, 3, Len(body))))

\* a slip: the trigger is addressed to ID 0 instead of the broadcast ID
triggerTxBuf_ToZero ==
    LET body == <<255, 255, 0, 2, INST_ACTION>>
    IN  Append(body, Byte(255 - SumBytes(SubSeq(body, 3, Len(body)))))

\* MX28::trigger: TxBuf[0 .. 5]
triggerTxBuf ==
    LET body == <<255, 255, BROADCAST, 2, INST_ACTION>>
    IN  Append(body, Checksum(SubSeq(body, 3, Len(body))))

---------------------------------------------------------------------------
(* Unit scaling of the setters and getters *)

\* a slip: the quotient rounded to the nearest integer instead of truncated
GoalRaw_Rounded(degrees) == (2 * 4095 * degrees + 360) \div 720

\* short goal = (4095 * degrees) / 360
GoalRaw(degrees) == Short(CDiv(4095 * degrees, 360))

\* a slip: the high byte first
Data2_BigEndian(v) == <<Byte(v \div 256), v % 256>>

\* data[0] = v & 0xff; data[1] = v >> 8
Data2(v) == <<Lo(v), Hi(v)>>

\* a slip: the blocking bit is taken for the register bit
RegFlag_Bit0(flags) == IF flags % 2 = 1 THEN 1 ELSE 0

\* reg_flag of SetGoal: set only when flags is exactly 2
RegFlag(flags) == IF flags = 2 THEN 1 ELSE 0

\* abs(speed) of a float speed is resolved by the build: to ::abs(int) of
\* <stdlib.h>, which converts speed to int first, or to the abs(float)
\* overload of <cmath>
AbsOverloads == {"int", "float"}

\* int goal = 0x3ff * abs(speed): the product is converted to int (towards
\* zero); goal |= (0x1 << 10) for a negative speed.  The float is speed / SpeedDen.
CRSpeedMagnitude(speed) ==
    IF absOverload = "int" THEN 1023 * Abs(CDiv(speed, SpeedDen))
                           ELSE CDiv(1023 * Abs(speed), SpeedDen)

CRSpeedRaw(speed) == CRSpeedMagnitude(speed) + (IF speed < 0 THEN 1024 ELSE 0)

\* short limit = torque_lim * 1023
TorqueRaw(torque_lim) == Short(torque_lim * 1023)

\* short position = data[0] + (data[1] << 8); angle = (position * 300) / 1024
PositionAngle(dat) == CDiv(Short(dat[1] + 256 * dat[2]) * 300, 1024)

\* float temp = data[0]
TempOf(dat) == <<dat[1]>>

\* float volts = data[0] / 10.0, as <<numerator, denominator>>
VoltsOf(dat) == <<dat[1], 10>>

\* float current = ((data[0] + (data[1] << 8)) - 0x8FF) * 0.0045, as
\* <<numerator, denominator>>
CurrentOf(dat) == <<(dat[1] + 256 * dat[2] - 2303) * 45, 10000>>

\* the methods that return what a read() stored in data[]
Getters == {"isMoving", "GetPosition", "GetTemp", "GetVolts", "GetCurrent"}

\* a getter that returned an error indication for a non-zero error code
GetterValue_ErrorChecked(name, dat) ==
    IF ret # <<0>> THEN <<-1>>
    ELSE CASE name = "isMoving" -> <<dat[1]>>
           [] name = "GetPosition" -> <<PositionAngle(dat)>>
           [] name = "GetTemp" -> TempOf(dat)
           [] name = "GetVolts" -> VoltsOf(dat)
           [] name = "GetCurrent" -> CurrentOf(dat)

\* what a getter returns: computed from data[] alone; the int ErrorCode that
\* read() returned is not used
GetterValue(name, dat) ==
    CASE name = "isMoving" -> <<dat[1]>>
      [] name = "GetPosition" -> <<PositionAngle(dat)>>
      [] name = "GetTemp" -> TempOf(dat)
      [] name = "GetVolts" -> VoltsOf(dat)
      [] name = "GetCurrent" -> CurrentOf(dat)

\* the arguments of the write() call of every setter
WriteArgs(ID, start, bytes, dat, flag) ==
    [ID |-> ID, start |-> start, bytes |-> bytes, data |-> dat, flag |-> flag]
SetGoalArgs(id, degrees, flags) ==
    WriteArgs(id, MX28_REG_GOAL_POSITION, 2, Data2(GoalRaw(degrees)), RegFlag(flags))
SetCWLimitArgs(id, degrees) ==
    WriteArgs(id, MX28_REG_CW_LIMIT, 2, Data2(GoalRaw(degrees)), 0)
SetCCWLimitArgs(id, degrees) ==
    WriteArgs(id, MX28_REG_CCW_LIMIT, 2, Data2(GoalRaw(degrees)), 0)
SetCRSpeedArgs(id, speed) ==
    WriteArgs(id, MX28_REG_MOVING_SPEED, 2, Data2(CRSpeedRaw(speed)), 0)
SetIDArgs(CurrentID, NewID) ==
    WriteArgs(CurrentID, MX28_REG_ID, 1, <<NewID>>, 0)
TorqueEnableArgs(id, mode) ==
    WriteArgs(id, MX28_REG_TORQUE_ENABLE, 1, <<mode>>, 0)

\* SetTorqueLimit writing the moving-speed register
SetTorqueLimitArgs_SpeedReg(id, torque_lim) ==
    WriteArgs(id, MX28_REG_MOVING_SPEED, 2, Data2(TorqueRaw(torque_lim)), 0)
SetTorqueLimitArgs(id, torque_lim) ==
    WriteArgs(id, MX28_REG_TORQUE_LIMIT, 2, Data2(TorqueRaw(torque_lim)), 0)

\* SetMode calling SetCCWLimit before SetCWLimit
SetModeWrites_CCWFirst(id, mode) ==
    <<SetCCWLimitArgs(id, IF mode = 1 THEN 0 ELSE 360),
      SetCWLimitArgs(id, 0),
      SetCRSpeedArgs(id, 0)>>

\* SetMode: SetCWLimit(0), SetCCWLimit(0 or 360), SetCRSpeed(0.0), in this order
SetModeWrites(id, mode) ==
    <<SetCWLimitArgs(id, 0),
      SetCCWLimitArgs(id, IF mode = 1 THEN 0 ELSE 360),
      SetCRSpeedArgs(id, 0)>>

\* the bound of the putc loop: 7 + bytes in write, 8 in read, 6 in trigger
TxCount(kind, bytes) ==
    IF kind = "write" THEN 7 + bytes ELSE IF kind = "read" THEN 8 ELSE 6

\* for (i = 0; i < count; i++) putc(TxBuf[i]): what the loop puts on the link
PutcLoop(buf, count) == [i \in 1..count |-> buf[i]]

---------------------------------------------------------------------------
(* Inputs of the model *)

\* bus IDs of the attached actuators (arm/main.cpp: pitch is 1, yaw is 2)
DevIDs == Objs
\* every object is constructed for its actuator's ID or for the broadcast ID
ObjIDs(o) == {o, BROADCAST}
Degrees == {150, 360}
FlagValues == 0..3
Speeds == {-SpeedDen, 0, 1}
TorqueLimits == {0, 1}
TorqueModes == {0, 1}
Modes == {0, 1, 2}
CurrentIDs == {1, BROADCAST}
NewIDs == {3}
\* what an uninitialised char of the stack may hold
UninitBytes == {0, 1}
\* error bytes an actuator may report
ErrBytes == {0, 36}
\* register contents an actuator may report
PayloadBytes == {0, 1}
\* bytes an unattached (noisy) link may deliver at index i of a reply of n bytes
NoiseBytes(i, n) == {0, 255} \cup (IF i = 3 THEN {n - 4} ELSE {})

---------------------------------------------------------------------------
(* The actuators.  They are hardware, not code of the repository: what an  *)
(* actuator does with an instruction packet is taken from the protocol     *)
(* description (write 0x03 applies at once, reg-write 0x04 with parameters *)
(* is staged, a parameterless 0x04 applies what is staged; an actuator     *)
(* addressed by its own ID answers with a status packet, none answers a    *)
(* broadcast).  Only the goal-position register is tracked.                *)

\* 0xFF 0xFF <ID> <LEN> <ERROR> <PARAM...> <CHECKSUM>
StatusPacket(id, err, params) ==
    LET body == <<255, 255, id, Len(params) + 2, err>> \o params
    IN  Append(body, Checksum(SubSeq(body, 3, Len(body))))

PacketParams(pk) == SubSeq(pk, 6, Len(pk) - 1)

\* the registers of one actuator after the instruction packet pk
DeviceExec(d, pk) ==
    LET instr == pk[5]
        par == PacketParams(pk)
        isGoal == Len(par) = 3 /\ par[1] = MX28_REG_GOAL_POSITION
        value == par[2] + 256 * par[3]
    IN  IF instr = INST_WRITE /\ isGoal
            THEN [d EXCEPT !.goal = value, !.via = "write"]
        ELSE IF instr = INST_REG_WRITE /\ isGoal
            THEN [d EXCEPT !.staged = <<value>>]
        ELSE IF instr = INST_ACTION /\ par = <<>> /\ d.staged # NoValue
            THEN [d EXCEPT !.goal = d.staged[1], !.staged = NoValue, !.via = "action"]
        ELSE d

\* the actuators a packet to bus ID t addresses
Addressed(t) == {d \in DOMAIN dev : t = d \/ t = BROADCAST}

\* the status packets the bus may carry in answer to pk
Replies(pk) ==
    IF pk[3] \notin DOMAIN dev THEN {<<>>}
    ELSE IF pk[5] = INST_READ
        THEN {StatusPacket(pk[3], e, p) : e \in ErrBytes, p \in [1..pk[7] -> PayloadBytes]}
        ELSE {StatusPacket(pk[3], e, <<>>) : e \in ErrBytes}

---------------------------------------------------------------------------
(* The driver *)

NoCall == [name |-> None, obj |-> 0, arg |-> 0, flags |-> 0]
NoSub == [kind |-> None, ID |-> 0, start |-> 0, bytes |-> 0, flag |-> 0]

\* a method is entered
Enter(name, o, arg, flags) ==
    /\ pc = "idle"
    /\ call' = [name |-> name, obj |-> o, arg |-> arg, flags |-> flags]
    /\ UNCHANGED <<ID_, ret, rVal, result, rxq, dev, oob, encIn, encOut, absOverload, wlog, linkVars, armVars>>

\* write(ID, start, bytes, data, flag) up to its putc loop
StartWrite(a) ==
    /\ sub' = [kind |-> "write", ID |-> a.ID, start |-> a.start, bytes |-> a.bytes,
               flag |-> a.flag]
    /\ TxBuf' = writeTxBuf(a.ID, a.start, a.bytes, a.data, a.flag)
    /\ wire' = <<>>
    /\ Status' = <<>>
    /\ data' = <<>>
    /\ pc' = "tx"

\* read(ID, start, bytes, data) up to its putc loop
StartRead(ID, start, bytes) ==
    /\ sub' = [kind |-> "read", ID |-> ID, start |-> start, bytes |-> bytes, flag |-> 0]
    /\ TxBuf' = readTxBuf(ID, start, bytes)
    /\ wire' = <<>>
    /\ Status' = <<>>
    /\ data' = <<>>
    /\ pc' = "tx"

\* trigger() up to its putc loop
StartTrigger ==
    /\ sub' = [kind |-> "trigger", ID |-> BROADCAST, start |-> 0, bytes |-> 0, flag |-> 0]
    /\ TxBuf' = triggerTxBuf
    /\ wire' = <<>>
    /\ Status' = <<>>
    /\ data' = <<>>
    /\ pc' = "tx"

SetGoal(o, degrees, flags) ==
    /\ Enter("SetGoal", o, degrees, flags)
    /\ StartWrite(SetGoalArgs(ID_[o], degrees, flags))

SetCRSpeed(o, speed) ==
    /\ Enter("SetCRSpeed", o, speed, 0)
    /\ StartWrite(SetCRSpeedArgs(ID_[o], speed))

SetCWLimit(o, degrees) ==
    /\ Enter("SetCWLimit", o, degrees, 0)
    /\ StartWrite(SetCWLimitArgs(ID_[o], degrees))

SetCCWLimit(o, degrees) ==
    /\ Enter("SetCCWLimit", o, degrees, 0)
    /\ StartWrite(SetCCWLimitArgs(ID_[o], degrees))

\* SetID storing NewID in the object
SetID_Adopting(o, CurrentID, NewID) ==
    /\ pc = "idle"
    /\ call' = [name |-> "SetID", obj |-> o, arg |-> CurrentID, flags |-> 0]
    /\ ID_' = [ID_ EXCEPT ![o] = NewID]
    /\ UNCHANGED <<ret, rVal, result, rxq, dev, oob, encIn, encOut, absOverload, wlog,
                   linkVars, armVars>>
    /\ StartWrite(SetIDArgs(CurrentID, NewID))

SetID(o, CurrentID, NewID) ==
    /\ Enter("SetID", o, CurrentID, 0)
    /\ StartWrite(SetIDArgs(CurrentID, NewID))

TorqueEnable(o, mode) ==
    /\ Enter("TorqueEnable", o, mode, 0)
    /\ StartWrite(TorqueEnableArgs(ID_[o], mode))

SetTorqueLimit(o, torque_lim) ==
    /\ Enter("SetTorqueLimit", o, torque_lim, 0)
    /\ StartWrite(SetTorqueLimitArgs(ID_[o], torque_lim))

trigger(o) ==
    /\ Enter("trigger", o, 0, 0)
    /\ StartTrigger

isMoving(o) ==
    /\ Enter("isMoving", o, 0, 0)
    /\ StartRead(ID_[o], MX28_REG_MOVING, 1)

GetPosition(o) ==
    /\ Enter("GetPosition", o, 0, 0)
    /\ StartRead(ID_[o], MX28_REG_POSITION, 2)

GetTemp(o) ==
    /\ Enter("GetTemp", o, 0, 0)
    /\ StartRead(ID_[o], MX28_REG_TEMP, 1)

GetVolts(o) ==
    /\ Enter("GetVolts", o, 0, 0)
    /\ StartRead(ID_[o], MX28_REG_VOLTS, 1)

GetCurrent(o) ==
    /\ Enter("GetCurrent", o, 0, 0)
    /\ StartRead(ID_[o], MX28_REG_CURRENT, 2)

\* SetMode returning what its last setter returned
SetModeResult_LastError == ret

\* return(0) of SetMode: what its setters returned is dropped
SetModeResult == <<0>>

\* SetMode starts with SetCWLimit(0)
SetMode(o, mode) ==
    /\ Enter("SetMode", o, mode, 0)
    /\ StartWrite(SetModeWrites(ID_[o], mode)[1])

\* how many of its three setters SetMode has called, from the register of
\* the write that returned
SetModeStep ==
    IF sub.start = MX28_REG_CW_LIMIT THEN 1
    ELSE IF sub.start = MX28_REG_CCW_LIMIT THEN 2 ELSE 3

\* the number of status bytes the getc loop of the protocol call reads
RxCount == IF sub.kind = "write" THEN 6 ELSE 6 + sub.bytes

\* whether the protocol call runs its getc loop: "if (_ID != 0xFE)" tests
\* the object's _ID, not the ID argument of the call; trigger has no getc loop
ReadsReply(kind, objID, targetID) == kind # "trigger" /\ objID # BROADCAST

\* Status[4] as preset before the getc loop: 0x00 in write, 0xFE in read
PresetError == IF sub.kind = "write" THEN 0 ELSE 254

\* the caller's data[] of a read is an uninitialised local: what it holds
\* where read() stores nothing
Uninit(bytes) == [1..bytes -> UninitBytes]

\* one _mx28.putc(TxBuf[i]); the actuators see the packet with its last byte
Putc ==
    /\ pc = "tx"
    /\ wire' = PutcLoop(TxBuf, Len(wire) + 1)
    /\ IF Len(wire') < TxCount(sub.kind, sub.bytes)
          THEN /\ pc' = "tx"
               /\ UNCHANGED <<ret, dev, rxq, data, wlog>>
          ELSE /\ wlog' = (IF sub.kind = "write" THEN Append(wlog, wire') ELSE wlog)
               /\ dev' = [d \in DOMAIN dev |->
                            IF d \in Addressed(TxBuf[3]) THEN DeviceExec(dev[d], TxBuf)
                                                         ELSE dev[d]]
               /\ \E reply \in Replies(TxBuf) : rxq' = rxq \o reply
               /\ IF ReadsReply(sub.kind, ID_[call.obj], sub.ID)
                     THEN pc' = "rx" /\ UNCHANGED <<ret, data>>
                     ELSE /\ pc' = "ret"
                          /\ ret' = (IF sub.kind = "trigger" THEN NoValue ELSE <<PresetError>>)
                          /\ data' \in Uninit(sub.bytes)
    /\ UNCHANGED <<ID_, call, sub, TxBuf, Status, rVal, result, oob, encIn, encOut,
                   absOverload, linkVars, armVars>>

\* the copy loop of read: for (i = 0; i < Status[3]-2; i++) data[i] = Status[5+i]
CopyOut(st, old, bytes) ==
    [i \in 1..bytes |-> IF i <= st[4] - 2 THEN st[5 + i] ELSE old[i]]

\* one Status[i] = _mx28.getc(); after the last one the call returns Status[4]
Getc ==
    /\ pc = "rx"
    /\ rxq # <<>>
    /\ Status' = Append(Status, Head(rxq))
    /\ rxq' = Tail(rxq)
    /\ IF Len(Status') < RxCount
          THEN /\ pc' = "rx"
               /\ UNCHANGED <<ret, data, oob>>
          ELSE /\ pc' = "ret"
               /\ ret' = <<Status'[5]>>
               /\ IF sub.kind = "read"
                     THEN /\ \E junk \in Uninit(sub.bytes) :
                                 data' = CopyOut(Status', junk, sub.bytes)
                          /\ oob' = (oob \/ Status'[4] - 2 > sub.bytes)
                     ELSE UNCHANGED <<data, oob>>
    /\ UNCHANGED <<ID_, call, sub, TxBuf, wire, rVal, result, dev, encIn, encOut, absOverload, wlog, linkVars, armVars>>

\* a byte arrives on a link nothing is attached to, while the driver waits
LinkNoise ==
    /\ pc = "rx"
    /\ rxq = <<>>
    /\ \E b \in NoiseBytes(Len(Status), RxCount) : rxq' = <<b>>
    /\ UNCHANGED <<ID_, pc, call, sub, TxBuf, wire, Status, data, ret, rVal, result,
                   dev, oob, encIn, encOut, absOverload, wlog, linkVars, armVars>>

\* the method goes on after its protocol call returned
Resume ==
    /\ pc = "ret"
    /\ rVal' = (IF sub.kind = "write" THEN ret ELSE rVal)
    /\ IF call.name = "SetGoal" /\ call.flags = 1 /\ (sub.kind = "write" \/ data[1] # 0)
          THEN \* while (isMoving()) {}
               /\ StartRead(ID_[call.obj], MX28_REG_MOVING, 1)
               /\ UNCHANGED result
          ELSE IF call.name = "SetMode" /\ SetModeStep < 3
          THEN \* the next setter of SetMode
               /\ StartWrite(SetModeWrites(ID_[call.obj], call.arg)[SetModeStep + 1])
               /\ UNCHANGED result
          ELSE /\ pc' = "done"
               /\ result' = CASE call.name \in Getters -> GetterValue(call.name, data)
                              [] call.name = "trigger" -> NoValue
                              [] call.name = "SetMode" -> SetModeResult
                              [] OTHER -> rVal'
               /\ UNCHANGED <<sub, TxBuf, wire, Status, data>>
    /\ UNCHANGED <<ID_, call, ret, rxq, dev, oob, encIn, encOut, absOverload, wlog, linkVars, armVars>>

\* the method has returned to its caller; its locals are gone
Return ==
    /\ pc = "done"
    /\ pc' = "idle"
    /\ call' = NoCall
    /\ sub' = NoSub
    /\ TxBuf' = <<>>
    /\ wire' = <<>>
    /\ Status' = <<>>
    /\ data' = <<>>
    /\ ret' = NoValue
    /\ rVal' = NoValue
    /\ result' = NoValue
    /\ oob' = FALSE
    /\ wlog' = <<>>
    /\ UNCHANGED <<ID_, rxq, dev, encIn, encOut, absOverload, linkVars, armVars>>

---------------------------------------------------------------------------
(* Specifications *)

NoEnc == [f |-> None]

\* SerialHalfDuplex::SerialHalfDuplex: the tx pin is set as input; interrupts
\* are enabled, as they are after reset
InitLink ==
    /\ irq = TRUE
    /\ txpin = "input"
    /\ lpc = "idle"
    /\ lc = 0
    /\ retc = NoValue
    /\ rxbuf = <<>>
    /\ loopb = <<>>
    /\ ltrace = <<>>
    /\ lret = NoValue

\* the globals of arm/main.cpp before main(): int goals[] = {maxima[0],
\* maxima[1], 0}; a DigitalOut is 0 until written
InitArm ==
    /\ dx_relay = 0
    /\ goals = <<720, 334, 0>>
    /\ booted = FALSE
    /\ alog = <<>>

InitDriver ==
    /\ ID_ \in {f \in [Objs -> Objs \cup {BROADCAST}] : \A o \in Objs : f[o] \in ObjIDs(o)}
    /\ pc = "idle"
    /\ call = NoCall
    /\ sub = NoSub
    /\ TxBuf = <<>>
    /\ wire = <<>>
    /\ Status = <<>>
    /\ data = <<>>
    /\ ret = NoValue
    /\ rVal = NoValue
    /\ result = NoValue
    /\ rxq = <<>>
    /\ oob = FALSE
    /\ encOut = <<>>
    /\ wlog = <<>>
    /\ InitLink
    /\ InitArm

\* the driver on a link nothing is attached to: any byte may arrive
Init ==
    /\ InitDriver
    /\ absOverload \in AbsOverloads
    /\ dev = <<>>
    /\ encIn = NoEnc

\* the driver with an actuator attached for every object; no method of
\* this traffic calls abs()
InitBus ==
    /\ InitDriver
    /\ absOverload = "float"
    /\ dev = [d \in DevIDs |-> [goal |-> 0, staged |-> NoValue, via |-> "write"]]
    /\ encIn = NoEnc

GoalMethod ==
    \/ \E o \in Objs, d \in Degrees, f \in FlagValues : SetGoal(o, d, f)
    \/ \E o \in Objs : trigger(o)
    \/ \E o \in Objs : isMoving(o)
    \/ \E o \in Objs : GetPosition(o)

TelemetryMethod ==
    \/ \E o \in Objs : GetTemp(o)
    \/ \E o \in Objs : GetVolts(o)
    \/ \E o \in Objs : GetCurrent(o)

OtherMethod ==
    \/ \E o \in Objs, m \in Modes : SetMode(o, m)
    \/ \E o \in Objs, s \in Speeds : SetCRSpeed(o, s)
    \/ \E o \in Objs, d \in Degrees : SetCWLimit(o, d)
    \/ \E o \in Objs, d \in Degrees : SetCCWLimit(o, d)
    \/ \E o \in Objs, m \in TorqueModes : TorqueEnable(o, m)
    \/ \E o \in Objs, t \in TorqueLimits : SetTorqueLimit(o, t)
    \/ \E o \in Objs, c \in CurrentIDs, n \in NewIDs : SetID(o, c, n)

Next ==
    \/ GoalMethod
    \/ TelemetryMethod
    \/ OtherMethod
    \/ Putc
    \/ Getc
    \/ LinkNoise
    \/ Resume
    \/ Return

\* the goal-position traffic of the bus: the actuators keep their bus IDs
NextBus ==
    \/ GoalMethod
    \/ TelemetryMethod
    \/ Putc
    \/ Getc
    \/ Resume
    \/ Return

Spec == Init /\ [][Next]_vars

SpecBus == InitBus /\ [][NextBus]_vars

---------------------------------------------------------------------------
(* The packet builders on their own: Init draws the arguments of one call  *)
(* of write, read, trigger or an angle setter, the action runs the call up *)
(* to the end of its putc loop and encOut is what the loop transmitted.    *)

AllBytes == 0..255
ByteSamples == {0, 127, 255}
WriteFlags == 0..2

EncIn(f, ID, start, bytes, dat, flag, degrees) ==
    [f |-> f, ID |-> ID, start |-> start, bytes |-> bytes, data |-> dat,
     flag |-> flag, degrees |-> degrees]

\* data[0..n-1] with data[0] drawn from First
DataSet(n, First) ==
    IF n = 0 THEN {<<>>}
    ELSE {<<x>> \o r : x \in First, r \in [1..(n - 1) -> ByteSamples]}

WriteInput(IDs, Starts, First) ==
    \E i \in IDs, st \in Starts, n \in 0..MaxBytes, fl \in WriteFlags :
        \E d \in DataSet(n, First) : encIn = EncIn("write", i, st, n, d, fl, 0)

ReadInput(IDs, Starts) ==
    \E i \in IDs, st \in Starts, n \in 0..MaxBytes :
        encIn = EncIn("read", i, st, n, <<>>, 0, 0)

AngleSetters == {"SetGoal", "SetCWLimit", "SetCCWLimit"}

AngleInput ==
    \E f \in AngleSetters, i \in {1, BROADCAST}, d \in 0..MaxDegrees :
        encIn = EncIn(f, i, 0, 2, <<>>, 0, d)

\* SetCRSpeed(speed / SpeedDen) for every speed of -1.0 .. 1.0 in steps
SpeedInput ==
    \E i \in {1, BROADCAST}, n \in (-SpeedDen)..SpeedDen :
        encIn = [f |-> "SetCRSpeed", ID |-> i, speed |-> n]

\* high bytes of a position reply: every raw value 0..4095, and the values
\* around the sign bit of a short
PositionHi == (0..15) \cup {127, 128, 255}

\* GetPosition on the status reply that carries the two payload bytes
PositionInput ==
    \E lo \in AllBytes, hi \in PositionHi, e \in ErrBytes :
        encIn = [f |-> "GetPosition", ID |-> 1, err |-> e, payload |-> <<lo, hi>>]

InitEnc ==
    /\ \/ WriteInput(AllBytes, ByteSamples, ByteSamples)
       \/ WriteInput(ByteSamples, AllBytes, ByteSamples)
       \/ WriteInput(ByteSamples, ByteSamples, AllBytes)
       \/ ReadInput(AllBytes, ByteSamples)
       \/ ReadInput(ByteSamples, AllBytes)
       \/ encIn = EncIn("trigger", 0, 0, 0, <<>>, 0, 0)
       \/ AngleInput
       \/ SpeedInput
       \/ PositionInput
    /\ ID_ = [o \in Objs |-> o]
    /\ InitDriver
    /\ absOverload \in (IF encIn.f = "SetCRSpeed" THEN AbsOverloads ELSE {"float"})
    /\ dev = <<>>

\* what the putc loop of write() transmits
WritePutc(a) ==
    PutcLoop(writeTxBuf(a.ID, a.start, a.bytes, a.data, a.flag), TxCount("write", a.bytes))

Encoded(out) ==
    /\ encOut = <<>>
    /\ encOut' = out
    /\ UNCHANGED <<ID_, pc, call, sub, TxBuf, wire, Status, data, ret, rVal, result,
                   rxq, dev, oob, encIn, absOverload, wlog, linkVars, armVars>>

EncWrite ==
    /\ encIn.f = "write"
    /\ Encoded(WritePutc(encIn))

EncRead ==
    /\ encIn.f = "read"
    /\ Encoded(PutcLoop(readTxBuf(encIn.ID, encIn.start, encIn.bytes),
                        TxCount("read", encIn.bytes)))

EncTrigger ==
    /\ encIn.f = "trigger"
    /\ Encoded(PutcLoop(triggerTxBuf, TxCount("trigger", 0)))

EncSetGoal ==
    /\ encIn.f = "SetGoal"
    /\ Encoded(WritePutc(SetGoalArgs(encIn.ID, encIn.degrees, encIn.flag)))

EncSetCWLimit ==
    /\ encIn.f = "SetCWLimit"
    /\ Encoded(WritePutc(SetCWLimitArgs(encIn.ID, encIn.degrees)))

EncSetCCWLimit ==
    /\ encIn.f = "SetCCWLimit"
    /\ Encoded(WritePutc(SetCCWLimitArgs(encIn.ID, encIn.degrees)))

EncSetCRSpeed ==
    /\ encIn.f = "SetCRSpeed"
    /\ Encoded(WritePutc(SetCRSpeedArgs(encIn.ID, encIn.speed)))

\* GetPosition from the copy loop of its read() on: the angle it returns
EncGetPosition ==
    /\ encIn.f = "GetPosition"
    /\ \E junk \in Uninit(2) :
          Encoded(<<PositionAngle(CopyOut(StatusPacket(encIn.ID, encIn.err, encIn.payload),
                                          junk, 2))>>)

NextEnc ==
    \/ EncWrite
    \/ EncRead
    \/ EncTrigger
    \/ EncSetGoal
    \/ EncSetCWLimit
    \/ EncSetCCWLimit
    \/ EncSetCRSpeed
    \/ EncGetPosition

SpecEnc == InitEnc /\ [][NextEnc]_vars

---------------------------------------------------------------------------
(* The half-duplex link: SerialHalfDuplex::_putc statement by statement,   *)
(* SerialHalfDuplex::_getc, and the wire.  The tx pin is tied to the rx    *)
(* pin, so a byte the UART transmits comes back into its own receive       *)
(* buffer; bytes of the actuators arrive there while the link listens.     *)

\* bytes handed to _putc
LinkBytes == {0, 85, 255}
\* bytes the actuators put on the wire
WireBytes == {0, 255}

Step(name, val) == [step |-> name, val |-> val]

\* _putc(c) is entered (with room for its byte in the receive buffer)
putc_(c) ==
    /\ lpc = "idle"
    /\ Len(rxbuf) + Len(loopb) <= MaxRx
    /\ lc' = c
    /\ retc' = NoValue
    /\ ltrace' = <<>>
    /\ lpc' = "disable"
    /\ UNCHANGED <<irq, txpin, rxbuf, loopb, lret, driverVars, armVars>>

\* __disable_irq(); the step records how many earlier bytes wait unread, in
\* the receive buffer or still on the wire
DisableIrq ==
    /\ lpc = "disable"
    /\ irq' = FALSE
    /\ ltrace' = Append(ltrace, Step("disable_irq", Len(rxbuf) + Len(loopb)))
    /\ lpc' = "pinout"
    /\ UNCHANGED <<txpin, lc, retc, rxbuf, loopb, lret, driverVars, armVars>>

\* serial_pinout_tx(_txpin)
PinoutTx ==
    /\ lpc = "pinout"
    /\ txpin' = "uart"
    /\ ltrace' = Append(ltrace, Step("pinout_tx", 0))
    /\ lpc' = "putc"
    /\ UNCHANGED <<irq, lc, retc, rxbuf, loopb, lret, driverVars, armVars>>

\* Serial::_putc(c): the byte is on the wire
SerialPutc ==
    /\ lpc = "putc"
    /\ loopb' = Append(loopb, lc)
    /\ ltrace' = Append(ltrace, Step("putc", lc))
    /\ lpc' = "getc"
    /\ UNCHANGED <<irq, txpin, lc, retc, rxbuf, lret, driverVars, armVars>>

\* retc = Serial::getc(): waits for a byte in the receive buffer and takes
\* the oldest
SerialGetc ==
    /\ lpc = "getc"
    /\ rxbuf # <<>>
    /\ retc' = <<Head(rxbuf)>>
    /\ rxbuf' = Tail(rxbuf)
    /\ ltrace' = Append(ltrace, Step("getc", Head(rxbuf)))
    /\ lpc' = "pinin"
    /\ UNCHANGED <<irq, txpin, lc, loopb, lret, driverVars, armVars>>

\* _putc leaving the pin in UART mode
PinInput_Forgotten ==
    /\ lpc = "pinin"
    /\ ltrace' = Append(ltrace, Step("pin_input", 0))
    /\ lpc' = "irqon"
    /\ UNCHANGED <<irq, txpin, lc, retc, rxbuf, loopb, lret, driverVars, armVars>>

\* pin_function(_txpin, 0)
PinInput ==
    /\ lpc = "pinin"
    /\ txpin' = "input"
    /\ ltrace' = Append(ltrace, Step("pin_input", 0))
    /\ lpc' = "irqon"
    /\ UNCHANGED <<irq, lc, retc, rxbuf, loopb, lret, driverVars, armVars>>

\* __enable_irq()
EnableIrq ==
    /\ lpc = "irqon"
    /\ irq' = TRUE
    /\ ltrace' = Append(ltrace, Step("enable_irq", 0))
    /\ lpc' = "return"
    /\ UNCHANGED <<txpin, lc, retc, rxbuf, loopb, lret, driverVars, armVars>>

\* _putc returning the byte it was given
PutcReturn_Argument ==
    /\ lpc = "return"
    /\ lret' = <<lc>>
    /\ lpc' = "idle"
    /\ UNCHANGED <<irq, txpin, lc, retc, rxbuf, loopb, ltrace, driverVars, armVars>>

\* return retc
PutcReturn ==
    /\ lpc = "return"
    /\ lret' = retc
    /\ lpc' = "idle"
    /\ UNCHANGED <<irq, txpin, lc, retc, rxbuf, loopb, ltrace, driverVars, armVars>>

\* SerialHalfDuplex::_getc: return Serial::_getc(), which waits for a byte
getc_ ==
    /\ lpc = "idle"
    /\ rxbuf # <<>>
    /\ lret' = <<Head(rxbuf)>>
    /\ rxbuf' = Tail(rxbuf)
    /\ UNCHANGED <<irq, txpin, lpc, lc, retc, loopb, ltrace, driverVars, armVars>>

\* the wire: the transmitted byte comes back into the receive buffer
Loopback ==
    /\ loopb # <<>>
    /\ rxbuf' = Append(rxbuf, Head(loopb))
    /\ loopb' = Tail(loopb)
    /\ UNCHANGED <<irq, txpin, lpc, lc, retc, ltrace, lret, driverVars, armVars>>

\* the wire: an actuator's byte arrives while the link listens
Arrive ==
    /\ lpc = "idle"
    /\ Len(rxbuf) < MaxRx
    /\ \E b \in WireBytes : rxbuf' = Append(rxbuf, b)
    /\ UNCHANGED <<irq, txpin, lpc, lc, retc, loopb, ltrace, lret, driverVars, armVars>>

InitLinkSpec ==
    /\ InitDriver
    /\ ID_ = [o \in Objs |-> o]
    /\ absOverload = "float"
    /\ dev = <<>>
    /\ encIn = NoEnc

NextLink ==
    \/ \E c \in LinkBytes : putc_(c)
    \/ DisableIrq
    \/ PinoutTx
    \/ SerialPutc
    \/ SerialGetc
    \/ PinInput
    \/ EnableIrq
    \/ PutcReturn
    \/ getc_
    \/ Loopback
    \/ Arrive

SpecLink == InitLinkSpec /\ [][NextLink]_vars

---------------------------------------------------------------------------
(* The arm controller (mbed/arm/main.cpp) *)

\* int minima[], maxima[], speeds[], inits[]; speeds is an int array
\* initialised with 0.1, 0.2, 0.2, which the conversion truncates to 0
minima == <<100, 172, 360>>
maxima == <<720, 334, 360>>
speeds == <<0, 0, 0>>
inits == <<maxima[1], maxima[2], 0>>

\* float thermo_data[2][16]
ThermoRows == 2
ThermoCols == 16

\* the bytes the host is taken to send: every mode, every command field 0
\* (hold), 1 (step up) or 3 (all bits set, what -1 is in two bits)
HostBytes == {b \in AllBytes : \A s \in {4, 16, 64} : (b \div s) % 4 \in {0, 1, 3}}

\* what linear->isMoving() can return
MovingValues == {0, 1}

\* union ArmPacket: the unsigned 2-bit fields of the byte, mode in the
\* lowest bits
PacketMode(b) == b % 4
PacketLinear(b) == (b \div 4) % 4
PacketPitch(b) == (b \div 16) % 4
PacketYaw(b) == (b \div 64) % 4

\* commands[0..2]
Commands(b) == <<PacketLinear(b), PacketPitch(b), PacketYaw(b)>>

\* one thing a handler did: a call on servos[i] with its argument (or the
\* value it returned), a pin written, a value sent to the host; relay is
\* dx_relay at that moment
Did(op, i, arg, relay) == [op |-> op, i |-> i, arg |-> arg, relay |-> relay]

\* packet.as_byte = rpi.getc()
GetByte(b, relay) == <<Did("getc", 0, b, relay)>>

\* DxGoHome sending all three goals whatever the poll returned
DxGoHomeOps_Regardless(moving, relay) ==
    <<Did("SetGoal", 0, inits[1], relay), Did("isMoving", 0, moving, relay),
      Did("SetGoal", 1, inits[2], relay), Did("SetGoal", 2, inits[3], relay)>>

\* DxGoHome(), moving being what linear->isMoving() returned
DxGoHomeOps(moving, relay) ==
    <<Did("SetGoal", 0, inits[1], relay), Did("isMoving", 0, moving, relay)>>
    \o (IF moving = 0
        THEN <<Did("SetGoal", 1, inits[2], relay), Did("SetGoal", 2, inits[3], relay)>>
        ELSE <<>>)

\* the body of the loop of DxInitialize for servos[i]
LimitOps(i, relay) ==
    <<Did("SetCWLimit", i, minima[i + 1], relay),
      Did("SetCCWLimit", i, maxima[i + 1], relay),
      Did("SetCRSpeed", i, speeds[i + 1], relay)>>

\* the goal after the if / else if of the mode 0 handler for command c
GoalAfter(g, c) == IF c = 1 THEN g + 1 ELSE IF c = -1 THEN g - 1 ELSE g

GoalsAfter(gs, b) == [i \in 1..3 |-> GoalAfter(gs[i], Commands(b)[i])]

\* the first loop of mode 0: GetPosition, then GetVolts or GetCurrent
ReadOps(relay) ==
    <<Did("GetPosition", 0, 0, relay), Did("GetVolts", 0, 0, relay),
      Did("GetPosition", 1, 0, relay), Did("GetCurrent", 1, 0, relay),
      Did("GetPosition", 2, 0, relay), Did("GetCurrent", 2, 0, relay)>>

\* the second loop of mode 0: servos[i]->SetGoal(goals[i])
MoveOps(gs, relay) == [i \in 1..3 |-> Did("SetGoal", i - 1, gs[i], relay)]

\* thermo_sensors[i].temp(thermo_data[i])
TempOps(relay) == [i \in 1..ThermoRows |-> Did("temp", i - 1, 0, relay)]

\* for (int j=0; i < 16; i++) rpi.printf("%4.1f ", thermo_data[i][j]):
\* the accesses <<i, j>> of the inner loop entered with i
RECURSIVE ThermoInner(_, _)
ThermoInner(i, j) ==
    IF i < ThermoCols THEN <<<<i, j>>>> \o ThermoInner(i + 1, j) ELSE <<>>

\* i when the inner loop is left
InnerExit(i) == IF i < ThermoCols THEN ThermoCols ELSE i

\* for (int i=0; i < 2; i++) { inner loop }
RECURSIVE ThermoOuter(_)
ThermoOuter(i) ==
    IF i < ThermoRows
    THEN ThermoInner(i, 0) \o ThermoOuter(InnerExit(i) + 1)
    ELSE <<>>

\* what mode 0 sends to the host: positions, values, thermo data, CO2, "\n"
PrintOps(relay) ==
    [i \in 1..3 |-> Did("print_position", i - 1, 0, relay)]
    \o [i \in 1..3 |-> Did("print_value", i - 1, 0, relay)]
    \o [k \in 1..Len(ThermoOuter(0)) |->
           Did("print_thermo", ThermoOuter(0)[k][1], ThermoOuter(0)[k][2], relay)]
    \o <<Did("print_co2", 0, 0, relay), Did("print_newline", 0, 0, relay)>>

\* DxInitialize(), called by main before its loop
DxInitialize ==
    /\ ~booted
    /\ dx_relay' = 1
    /\ \E moving \in MovingValues :
          alog' = <<Did("dx_relay", 0, 1, 1)>>
                  \o LimitOps(0, 1) \o LimitOps(1, 1) \o LimitOps(2, 1)
                  \o <<Did("SetTorqueLimit", 0, 1, 1)>>
                  \o DxGoHomeOps(moving, 1)
    /\ booted' = TRUE
    /\ UNCHANGED <<goals, driverVars, linkVars>>

\* case 0: read the servos, step and send the goals, read the sensors,
\* send everything to the host
Mode0(b) ==
    /\ booted
    /\ PacketMode(b) = 0
    /\ \A i \in 1..3 : GoalsAfter(goals, b)[i] - inits[i] <= MaxGoalSteps
    /\ goals' = GoalsAfter(goals, b)
    /\ alog' = GetByte(b, dx_relay) \o ReadOps(dx_relay)
               \o MoveOps(GoalsAfter(goals, b), dx_relay)
               \o TempOps(dx_relay) \o PrintOps(dx_relay)
    /\ UNCHANGED <<dx_relay, booted, driverVars, linkVars>>

\* case 1: DxGoHome()
Mode1(b) ==
    /\ booted
    /\ PacketMode(b) = 1
    /\ \E moving \in MovingValues :
          alog' = GetByte(b, dx_relay) \o DxGoHomeOps(moving, dx_relay)
    /\ UNCHANGED <<dx_relay, goals, booted, driverVars, linkVars>>

\* case 2: DxReset()
Mode2(b) ==
    /\ booted
    /\ PacketMode(b) = 2
    /\ dx_relay' = 1
    /\ alog' = GetByte(b, dx_relay)
               \o <<Did("dx_relay", 0, 0, 0), Did("wait_ms", 0, 10, 0),
                    Did("dx_relay", 0, 1, 1)>>
    /\ UNCHANGED <<goals, booted, driverVars, linkVars>>

\* case 3 with packet.b.linear set: rpi.printf("arm\n")
Mode3Arm(b) ==
    /\ booted
    /\ PacketMode(b) = 3
    /\ PacketLinear(b) # 0
    /\ alog' = GetByte(b, dx_relay) \o <<Did("print_arm", 0, 0, dx_relay)>>
    /\ UNCHANGED <<dx_relay, goals, booted, driverVars, linkVars>>

\* case 3 with packet.b.linear clear: DxEnd()
Mode3End(b) ==
    /\ booted
    /\ PacketMode(b) = 3
    /\ PacketLinear(b) = 0
    /\ dx_relay' = 0
    /\ \E moving \in MovingValues :
          alog' = GetByte(b, dx_relay) \o DxGoHomeOps(moving, dx_relay)
                  \o <<Did("dx_relay", 0, 0, 0)>>
    /\ UNCHANGED <<goals, booted, driverVars, linkVars>>

InitArmSpec ==
    /\ InitDriver
    /\ ID_ = [o \in Objs |-> o]
    /\ absOverload = "float"
    /\ dev = <<>>
    /\ encIn = NoEnc

NextArm ==
    \/ DxInitialize
    \/ \E b \in HostBytes : Mode0(b)
    \/ \E b \in HostBytes : Mode1(b)
    \/ \E b \in HostBytes : Mode2(b)
    \/ \E b \in HostBytes : Mode3Arm(b)
    \/ \E b \in HostBytes : Mode3End(b)

SpecArm == InitArmSpec /\ [][NextArm]_vars

---------------------------------------------------------------------------
(* Properties *)

\* the sum of the numbers of s, not reduced
RECURSIVE PlainSum(_)
PlainSum(s) == IF s = <<>> THEN 0 ELSE s[1] + PlainSum(Tail(s))

\* the checksum the protocol asks for, over ID .. last parameter
RefChecksum(s) == 255 - (PlainSum(s) % 256)

Returned == pc \in {"ret", "done"}

\* C1: a write whose ID argument is the broadcast address 254 never enters
\* the getc loop, reads no byte, and returns 0, whatever _ID the object has.
C1_BroadcastWriteNeverReads ==
    (sub.kind = "write" /\ sub.ID = BROADCAST) =>
        /\ pc # "rx"
        /\ Status = <<>>
        /\ Returned => ret = <<0>>

\* C2: the last byte transmitted by write, read and trigger is 0xFF minus the
\* sum, modulo 256, of the bytes from the ID byte through the last parameter.
C2_ChecksumByte ==
    (encOut # <<>> /\ encIn.f \in {"write", "read", "trigger"}) =>
        encOut[Len(encOut)] = RefChecksum(SubSeq(encOut, 3, Len(encOut) - 1))

\* C2 witness: a write was encoded whose byte sum wraps around more than once
C2_Witness ==
    /\ encIn.f = "write"
    /\ encOut # <<>>
    /\ PlainSum(SubSeq(encOut, 3, Len(encOut) - 1)) > 512

\* C3: write transmits exactly 7+n bytes FF FF ID n+3 instruction start
\* data[0..n-1] checksum, read exactly the 8 bytes FF FF ID 04 02 start n checksum.
C3_PacketLayout ==
    /\ (encOut # <<>> /\ encIn.f = "write") =>
          /\ Len(encOut) = 7 + encIn.bytes
          /\ encOut[5] \in {3, 4}
          /\ SubSeq(encOut, 1, 6) =
                <<255, 255, encIn.ID, encIn.bytes + 3, encOut[5], encIn.start>>
          /\ SubSeq(encOut, 7, 6 + encIn.bytes) = encIn.data
          /\ encOut[7 + encIn.bytes] =
                RefChecksum(<<encIn.ID, encIn.bytes + 3, encOut[5], encIn.start>> \o encIn.data)
    /\ (encOut # <<>> /\ encIn.f = "read") =>
          encOut = <<255, 255, encIn.ID, 4, 2, encIn.start, encIn.bytes,
                     RefChecksum(<<encIn.ID, 4, 2, encIn.start, encIn.bytes>>)>>

\* C3 witness: a write of two different data bytes was encoded
C3_Witness ==
    /\ encIn.f = "write"
    /\ encOut # <<>>
    /\ encIn.bytes = 2
    /\ encIn.data[1] # encIn.data[2]
    /\ encIn.ID = 200

\* C4: a write addressed to a non-broadcast ID returns byte [4] of the six
\* status bytes it received, whatever the six bytes are.
C4_WriteReturnsErrorByte ==
    (sub.kind = "write" /\ sub.ID # BROADCAST /\ Returned) =>
        /\ Len(Status) = 6
        /\ ret = <<Status[5]>>

\* C5: a protocol call to a non-broadcast ID reads its reply only after the
\* whole instruction packet was transmitted, and reads exactly 6 bytes (write)
\* or 6 + byte_count bytes (read), whatever _ID the object has.
C5_ReplyReadAfterTransmit ==
    (sub.kind \in {"write", "read"} /\ sub.ID # BROADCAST) =>
        /\ (pc = "rx" \/ Status # <<>>) => wire = TxBuf
        /\ Returned => Len(Status) = (IF sub.kind = "write" THEN 6 ELSE 6 + sub.bytes)

\* C6: write() sends instruction 0x04 when its flag is 1 and 0x03 otherwise,
\* and every setter other than SetGoal sends 0x03.
C6_WriteInstruction ==
    (sub.kind = "write" /\ Len(wire) >= 5) =>
        /\ wire[5] = (IF sub.flag = 1 THEN 4 ELSE 3)
        /\ call.name # "SetGoal" => wire[5] = 3
        /\ call.name = "SetGoal" => (sub.flag = 1 <=> call.flags = 2)

\* C6 witness: a staged SetGoal has put 0x04 on the link
C6_Witness ==
    /\ call.name = "SetGoal"
    /\ sub.kind = "write"
    /\ sub.flag = 1
    /\ Len(wire) >= 5
    /\ wire[5] = 4

\* C7 as stated: trigger transmits FF FF FE 02 04 FA and reads nothing.
C7_TriggerPacketFA ==
    (call.name = "trigger" /\ pc = "done") =>
        /\ wire = <<255, 255, 254, 2, 4, 250>>
        /\ Status = <<>>

\* C7 amended: trigger transmits exactly FF FF FE 02 04 FB (the checksum of
\* FE 02 04 is FB) and reads no byte, whatever _ID the object has.
C7_TriggerPacket ==
    call.name = "trigger" =>
        /\ pc # "rx"
        /\ Status = <<>>
        /\ Returned => wire = <<255, 255, 254, 2, 4, 251>>

\* C7 witness: trigger returned on an object whose _ID is not the broadcast ID
C7_Witness ==
    /\ call.name = "trigger"
    /\ pc = "done"
    /\ ID_[call.obj] # BROADCAST
    /\ Len(wire) = 6

\* the packet of the protocol call was transmitted in this step
PacketSent == pc = "tx" /\ pc' # "tx"

\* what C8 asks of one step
StagedStep ==
    /\ (call.name = "SetGoal" /\ call.flags = 2) =>
          /\ \A d \in DevIDs : dev'[d].goal = dev[d].goal /\ dev'[d].via = dev[d].via
          /\ PacketSent =>
                \A d \in DevIDs : (sub.ID = d \/ sub.ID = BROADCAST) =>
                    dev'[d].staged = <<(4095 * call.arg) \div 360>>
    /\ \A d \in DevIDs : (dev[d].staged # <<>> /\ dev'[d].staged = <<>>) =>
          /\ call.name = "trigger"
          /\ PacketSent
          /\ wire' = <<255, 255, 254, 2, 4, 251>>
    /\ (call.name = "trigger" /\ PacketSent) =>
          \A d \in DevIDs : dev[d].staged # <<>> =>
              /\ dev'[d].goal = dev[d].staged[1]
              /\ dev'[d].staged = <<>>
              /\ dev'[d].via = "action"

\* C8: a staged SetGoal (flags = 2, instruction 0x04) changes no actuator's
\* goal and leaves its value staged on the addressed actuator; a staged goal
\* is applied only by the step that completes the broadcast trigger packet,
\* and that step applies the staged goal of every actuator that holds one.
C8_StagedAppliedByTrigger == [][StagedStep]_vars

\* C8 witness: after a trigger both actuators hold goals applied by a trigger,
\* with distinct values staged through two objects with distinct bus IDs
C8_Witness ==
    /\ call.name = "trigger"
    /\ pc = "done"
    /\ ID_ = <<1, 2>>
    /\ dev[1].via = "action"
    /\ dev[2].via = "action"
    /\ dev[1].goal # dev[2].goal
    /\ dev[1].staged = <<>>
    /\ dev[2].staged = <<>>

\* SetGoal(150) returned on the object with bus ID 1
SetGoal150Done ==
    /\ call.name = "SetGoal"
    /\ call.arg = 150
    /\ call.flags = 0
    /\ ID_[call.obj] = 1
    /\ pc = "done"

\* C9 as stated: SetGoal(150) on bus ID 1 transmits FF FF 01 05 03 1E lo hi
\* checksum with lo, hi the little-endian raw value 2047, and returns 0 when
\* the actuator answers FF FF 01 02 00 checksum.
C9_SetGoal150Raw2047 ==
    SetGoal150Done =>
        /\ wire = <<255, 255, 1, 5, 3, 30, 2047 % 256, 2047 \div 256,
                    RefChecksum(<<1, 5, 3, 30, 2047 % 256, 2047 \div 256>>)>>
        /\ Status = <<255, 255, 1, 2, 0, 252>> => result = <<0>>

\* C9 amended: SetGoal(150) on bus ID 1 transmits FF FF 01 05 03 1E AA 06 28:
\* lo, hi is the little-endian raw value 1706 = (4095 * 150) / 360 truncated;
\* it returns 0 when the actuator answers FF FF 01 02 00 FC.
C9_SetGoal150 ==
    SetGoal150Done =>
        /\ wire = <<255, 255, 1, 5, 3, 30, 170, 6, 40>>
        /\ wire[7] + 256 * wire[8] = 1706
        /\ Status = <<255, 255, 1, 2, 0, 252>> => result = <<0>>

\* C9 witness: SetGoal(150) returned after the actuator answered FF FF 01 02 00 FC
C9_Witness ==
    /\ SetGoal150Done
    /\ Status = <<255, 255, 1, 2, 0, 252>>

\* the raw value in the packet of an angle setter
EncRaw == encOut[7] + 256 * encOut[8]

AngleEncoded == encOut # <<>> /\ encIn.f \in AngleSetters /\ encIn.degrees <= 360

\* C10 as stated: for d in 0..360 SetGoal, SetCWLimit and SetCCWLimit write the
\* integer nearest to 4095 * d / 360.
C10_AngleNearest ==
    AngleEncoded => 2 * Abs(360 * EncRaw - 4095 * encIn.degrees) <= 360

\* C10 amended: for d in 0..360 they write 4095 * d / 360 truncated to an
\* integer (the largest raw with 360 * raw <= 4095 * d); 0 gives 0 and 360
\* gives 4095.
C10_AngleTruncated ==
    AngleEncoded =>
        /\ 360 * EncRaw <= 4095 * encIn.degrees
        /\ 4095 * encIn.degrees < 360 * (EncRaw + 1)
        /\ encIn.degrees = 0 => EncRaw = 0
        /\ encIn.degrees = 360 => EncRaw = 4095
        /\ SubSeq(encOut, 3, 6) =
              <<encIn.ID, 5, 3,
                CASE encIn.f = "SetGoal" -> 30
                  [] encIn.f = "SetCWLimit" -> 6
                  [] encIn.f = "SetCCWLimit" -> 8>>

\* C10 witness: SetCCWLimit(2) was encoded: 22.75 is written as 22
C10_Witness ==
    /\ encOut # <<>>
    /\ encIn.f = "SetCCWLimit"
    /\ encIn.degrees = 2
    /\ EncRaw = 22

---------------------------------------------------------------------------
(* SetCRSpeed and GetPosition: the scaling *)

SpeedEncoded == encOut # <<>> /\ encIn.f = "SetCRSpeed"

\* C11: SetCRSpeed(speed), speed in -1.0..1.0, writes a 16-bit value whose
\* bits 9..0 are 0x3FF * |speed| rounded to the nearest integer (a tie to
\* either side, as 0x1FF or 0x200 for 0.5) and whose bit 10 is set exactly
\* when speed < 0; -1.0 gives magnitude 0x3FF with bit 10 set.
C11_SpeedRounded ==
    SpeedEncoded =>
        LET magnitude == EncRaw % 1024
            direction == (EncRaw \div 1024) % 2
        IN  /\ EncRaw < 2048
            /\ 2 * Abs(SpeedDen * magnitude - 1023 * Abs(encIn.speed)) <= SpeedDen
            /\ direction = 1 <=> encIn.speed < 0
            /\ encIn.speed = -SpeedDen => magnitude = 1023

PositionDecoded == encOut # <<>> /\ encIn.f = "GetPosition"

\* the little-endian 16-bit value of the two payload bytes of the reply
PayloadRaw == encIn.payload[1] + 256 * encIn.payload[2]

\* C12: GetPosition returns raw * 300 / 1024, raw the little-endian value of
\* the two payload bytes of the status reply; raw 1024 yields 300.0.
C12_PositionScaled ==
    PositionDecoded =>
        /\ 1024 * encOut[1] = 300 * PayloadRaw
        /\ PayloadRaw = 1024 => encOut[1] = 300

\* C13: GetPosition returns a value in 0.0 .. 300.0 for every raw position
\* 0..4095 and for every pair of payload bytes.
C13_PositionRange ==
    PositionDecoded => (0 <= encOut[1] /\ encOut[1] <= 300)

---------------------------------------------------------------------------
(* SetGoal flags, blocking calls, broadcast reads *)

Bit0(flags) == flags % 2 = 1
Bit1(flags) == (flags \div 2) % 2 = 1

\* the status reply of the last poll said "not moving"
PollSaidStopped ==
    /\ sub.kind = "read"
    /\ sub.start = MX28_REG_MOVING
    /\ Len(Status) = 7
    /\ Status[6] = 0

\* C14: for every flags value 0..3 of SetGoal: with bit 0 set the call returns
\* only after isMoving reported 0, and with bit 1 set the goal is sent as a
\* registered write (instruction 0x04).
C14_FlagBits ==
    call.name = "SetGoal" =>
        /\ (Bit1(call.flags) /\ wlog # <<>>) => wlog[1][5] = 4
        /\ (Bit0(call.flags) /\ pc = "done") => (sub.kind = "read" /\ data = <<0>>)

\* C15: a blocking SetGoal (flags = 1) transmits the goal-position write
\* exactly once and returns only after a poll in which the actuator reported
\* not moving (payload byte 0).
C15_BlockingUntilStopped ==
    (call.name = "SetGoal" /\ call.flags = 1) =>
        /\ Len(wlog) <= 1
        /\ pc = "done" => (Len(wlog) = 1 /\ PollSaidStopped)

\* C16: a read or write addressed to a non-broadcast ID returns only when the
\* link has delivered the full number of status bytes; until then the call
\* stays in its getc loop (no timeout, no error return).
C16_ReturnsOnlyWithFullReply ==
    (sub.kind \in {"write", "read"} /\ sub.ID # BROADCAST /\ wire = TxBuf) =>
        IF Len(Status) < RxCount THEN pc = "rx" ELSE Returned

\* C17: no read instruction packet addressed to the broadcast ID 254 is ever
\* transmitted.
C17_NoBroadcastRead ==
    (sub.kind = "read" /\ Len(wire) >= 5) => ~(wire[3] = 254 /\ wire[5] = 2)

---------------------------------------------------------------------------
(* Getters, SetMode, the register map *)

\* the number of payload bytes the copy loop of the last read stored in data[]
Copied ==
    IF Len(Status) < 6 + sub.bytes THEN 0
    ELSE IF Status[4] - 2 < 0 THEN 0
    ELSE IF Status[4] - 2 > sub.bytes THEN sub.bytes ELSE Status[4] - 2

\* what the getter returns for the data bytes d, by the arithmetic of its body
Reading(name, d) ==
    CASE name = "isMoving" -> <<d[1]>>
      [] name = "GetTemp" -> <<d[1]>>
      [] name = "GetVolts" -> <<d[1], 10>>
      [] name = "GetCurrent" -> <<(d[1] + 256 * d[2] - 2303) * 45, 10000>>
      [] name = "GetPosition" ->
            LET raw == d[1] + 256 * d[2]
            IN  <<(IF raw >= 32768 THEN -(((65536 - raw) * 300) \div 1024)
                                   ELSE (raw * 300) \div 1024)>>

GetterDone == pc = "done" /\ call.name \in Getters

\* C18: what GetPosition, GetTemp, GetVolts, GetCurrent and isMoving return
\* is a function of the payload bytes of the status reply (and, where the
\* reply carried fewer, of what the buffer held before): the error byte of
\* the reply has no part in it.
C18_ErrorByteDiscarded ==
    GetterDone =>
        \E junk \in Uninit(sub.bytes) :
            result = Reading(call.name,
                             [i \in 1..sub.bytes |->
                                 IF i <= Copied THEN Status[5 + i] ELSE junk[i]])

\* C18 witness: GetVolts returned 0.1 V, read from a reply whose error byte
\* is 0x24
C18_Witness ==
    /\ GetterDone
    /\ call.name = "GetVolts"
    /\ Len(Status) = 7
    /\ Status[5] = 36
    /\ Status[6] = 1
    /\ result = <<1, 10>>

\* the write packet FF FF id 05 03 reg lo hi checksum
Write2(id, reg, lo, hi) ==
    <<255, 255, id, 5, 3, reg, lo, hi, RefChecksum(<<id, 5, 3, reg, lo, hi>>)>>

\* the three write packets of SetMode(mode) on an object with bus ID id
ModePackets(id, mode) ==
    IF mode = 1
    THEN <<Write2(id, 6, 0, 0), Write2(id, 8, 0, 0), Write2(id, 32, 0, 0)>>
    ELSE <<Write2(id, 6, 0, 0), Write2(id, 8, 255, 15), Write2(id, 32, 0, 0)>>

RegisterMap(name) ==
    CASE name = "SetID" -> {<<"write", 3, 1>>}
      [] name = "SetCWLimit" -> {<<"write", 6, 2>>}
      [] name = "SetCCWLimit" -> {<<"write", 8, 2>>}
      [] name = "TorqueEnable" -> {<<"write", 24, 1>>}
      [] name = "SetGoal" -> {<<"write", 30, 2>>, <<"read", 46, 1>>}
      [] name = "SetCRSpeed" -> {<<"write", 32, 2>>}
      [] name = "SetTorqueLimit" -> {<<"write", 34, 2>>}
      [] name = "SetMode" -> {<<"write", 6, 2>>, <<"write", 8, 2>>, <<"write", 32, 2>>}
      [] name = "GetPosition" -> {<<"read", 36, 2>>}
      [] name = "GetVolts" -> {<<"read", 42, 1>>}
      [] name = "GetTemp" -> {<<"read", 43, 1>>}
      [] name = "isMoving" -> {<<"read", 46, 1>>}
      [] name = "GetCurrent" -> {<<"read", 68, 2>>}
      [] OTHER -> {}

\* a read or write packet is on the link in full
RegisterPacketSent == sub.kind \in {"write", "read"} /\ wire # <<>> /\ wire = TxBuf

\* C20: every operation addresses the register and the width of the register
\* map: ID 0x03 (1), CW limit 0x06 (2), CCW limit 0x08 (2), torque enable
\* 0x18 (1), goal position 0x1E (2), moving speed 0x20 (2), torque limit 0x22
\* (2) are written; position 0x24 (2), voltage 0x2A (1), temperature 0x2B
\* (1), moving 0x2E (1), current 0x44 (2) are read.
C20_RegisterMap ==
    RegisterPacketSent =>
        LET kind == IF wire[5] = 2 THEN "read" ELSE "write"
            width == IF wire[5] = 2 THEN wire[7] ELSE wire[4] - 3
        IN  /\ wire[5] \in {2, 3, 4}
            /\ Len(wire) = (IF wire[5] = 2 THEN 8 ELSE 7 + width)
            /\ <<kind, wire[6], width>> \in RegisterMap(call.name)

\* C20 witness: SetTorqueLimit has sent its two-byte write to register 0x22
C20_Witness ==
    /\ RegisterPacketSent
    /\ call.name = "SetTorqueLimit"
    /\ wire[6] = 34
    /\ Len(wire) = 9

---------------------------------------------------------------------------
(* The copy loop of read, the stored bus ID, the result of SetMode *)

\* C22: read(ID, start, n, data) stores at most n bytes in the caller's
\* data[] and takes them from Status bytes that were received, for every
\* value 0..255 of the length byte Status[3] of the reply.
C22_CopyWithinBuffer ==
    /\ ~oob
    /\ (sub.kind = "read" /\ Returned /\ Len(Status) = 6 + sub.bytes) =>
          /\ Status[4] - 2 <= sub.bytes
          /\ 5 + (Status[4] - 2) <= 6 + sub.bytes

\* no step changes _ID, and every read or write of a method other than
\* SetID is addressed to the _ID of its object
IDStep ==
    /\ ID_' = ID_
    /\ (call'.name \notin {None, "SetID"} /\ sub'.kind \in {"read", "write"}) =>
          sub'.ID = ID_[call'.obj]

\* C23: no operation changes the bus ID stored in the object: SetID sends
\* the ID-register write to CurrentID and leaves _ID as constructed, so every
\* other operation keeps addressing the ID given at construction.
C23_IDFixed == [][IDStep]_vars

\* C23 witness: SetID(1, 3) returned on the object constructed with ID 1,
\* whose _ID is still 1
C23_Witness ==
    /\ call.name = "SetID"
    /\ pc = "done"
    /\ wire = <<255, 255, 1, 4, 3, 3, 3, 241>>
    /\ ID_[call.obj] = 1

\* C29: SetMode returns 0 for every mode value, whatever its three register
\* writes returned.
C29_SetModeReturnsZero ==
    (call.name = "SetMode" /\ pc = "done") => result = <<0>>

\* C29 witness: SetMode returned after its last write returned the error
\* byte 0xFF
C29_Witness ==
    /\ call.name = "SetMode"
    /\ pc = "done"
    /\ Len(wlog) = 3
    /\ ret = <<255>>
    /\ result = <<0>>

---------------------------------------------------------------------------
(* The half-duplex link *)

PutcOrder == <<"disable_irq", "pinout_tx", "putc", "getc", "pin_input", "enable_irq">>

TraceSteps(tr) == [i \in 1..Len(tr) |-> tr[i].step]

PutcStep ==
    /\ TraceSteps(ltrace') = SubSeq(PutcOrder, 1, Len(ltrace'))
    /\ (lpc = "putc" /\ lpc' = "getc") => ltrace'[3].val = lc
    /\ (lpc = "getc" /\ lpc' = "pinin") =>
          /\ rxbuf # <<>>
          /\ rxbuf' = Tail(rxbuf)
          /\ ltrace'[4].val = Head(rxbuf)
          /\ ltrace'[1].val = 0 => Head(rxbuf) = lc
    /\ (lpc = "return" /\ lpc' = "idle") =>
          /\ Len(ltrace) = 6
          /\ lret' = <<ltrace[4].val>>

LinkInv ==
    /\ txpin = "uart" => ~irq
    /\ lpc = "idle" => (txpin = "input" /\ irq)

LinkStep ==
    /\ LinkInv
    /\ LinkInv'
    /\ (lpc = "getc" /\ rxbuf = <<>>) => (lpc' = "getc" /\ ~irq' /\ txpin' = "uart")

\* C28: whenever the tx pin is in UART-output mode interrupts are disabled;
\* whenever no transmission is in progress the pin is in input mode and
\* interrupts are enabled; while the byte to read back has not arrived,
\* _putc stays where it is with interrupts disabled and the pin in output
\* mode.
C28_PinAndInterrupts == [][LinkStep]_vars

\* C28 witness: _putc waits for the byte to loop back, which is still on the
\* wire
C28_Witness ==
    /\ lpc = "getc"
    /\ rxbuf = <<>>
    /\ loopb # <<>>
    /\ ~irq
    /\ txpin = "uart"

\* the calls that put a packet on the actuator bus
BusOps == {"SetGoal", "GetPosition", "GetVolts", "GetCurrent", "isMoving"}

\* C24: in the arm controller loop no actuator bus operation (SetGoal,
\* GetPosition, GetVolts, GetCurrent, isMoving) is issued while the power
\* relay dx_relay is off, whatever bytes the host sends, also when the end
\* command (mode 3, linear 0) is followed by mode 0 or mode 1 commands
C24_NoBusOpWhileRelayOff ==
    \A k \in 1..Len(alog) : alog[k].op \in BusOps => alog[k].relay = 1

\* the handler that just ran was mode 0
Mode0Log == alog # <<>> /\ alog[1].op = "getc" /\ PacketMode(alog[1].arg) = 0

\* the positions in the log where op was done
Where(op) == {k \in 1..Len(alog) : alog[k].op = op}

\* C25: answering a mode 0 command, every access thermo_data[i][j] has i in
\* 0..1 and j in 0..15, and exactly 2 x 16 = 32 thermal values are sent
\* between the servo values and the CO2 value
C25_ThermoSends ==
    Mode0Log =>
        /\ \A k \in Where("print_thermo") :
              /\ alog[k].i \in 0..(ThermoRows - 1)
              /\ alog[k].arg \in 0..(ThermoCols - 1)
        /\ Cardinality(Where("print_thermo")) = ThermoRows * ThermoCols
        /\ \A k \in Where("print_thermo") :
              /\ \A v \in Where("print_value") : v < k
              /\ \A c \in Where("print_co2") : k < c

\* a step of the mode 0 handler: each goal moves by at most 1, a command
\* field of 1 increments it, the goals sent are the updated ones, and some
\* host byte makes the handler decrement a goal
GoalStep ==
    (alog' # alog /\ alog' # <<>> /\ alog'[1].op = "getc"
        /\ PacketMode(alog'[1].arg) = 0) =>
        /\ \A i \in 1..3 :
              /\ goals'[i] - goals[i] \in {-1, 0, 1}
              /\ Commands(alog'[1].arg)[i] = 1 => goals'[i] = goals[i] + 1
        /\ \A k \in 1..Len(alog') :
              alog'[k].op = "SetGoal" => alog'[k].arg = goals'[alog'[k].i + 1]
        /\ \E b \in AllBytes : \E i \in 1..3 :
              PacketMode(b) = 0 /\ GoalsAfter(goals, b)[i] = goals[i] - 1

\* C26: in the mode 0 handler each goals[i] changes by at most 1 per
\* command byte, a command field equal to 1 increments it, there is a host
\* byte for which the decrement branch is taken, and every SetGoal sent
\* carries the updated goals[i]
C26_GoalSteps == [][GoalStep]_vars

\* the handler that just ran called DxGoHome
HomeLog ==
    /\ alog # <<>>
    /\ \/ alog[1].op = "dx_relay"
       \/ /\ alog[1].op = "getc"
          /\ \/ PacketMode(alog[1].arg) = 1
             \/ PacketMode(alog[1].arg) = 3 /\ PacketLinear(alog[1].arg) = 0

\* the goals and polls of the log, in order
HomePart == SelectSeq(alog, LAMBDA e : e.op \in {"SetGoal", "isMoving"})

Sent(e, op, i, arg) == e.op = op /\ e.i = i /\ e.arg = arg

\* C27: DxGoHome first sends the home goal to the linear actuator, then
\* polls its moving flag once, and sends the home goals to pitch and then
\* yaw only when the poll reported not moving; when it reported moving no
\* goal is sent to pitch or yaw
C27_GoHomeOrder ==
    HomeLog =>
        /\ Len(HomePart) >= 2
        /\ Sent(HomePart[1], "SetGoal", 0, inits[1])
        /\ HomePart[2].op = "isMoving" /\ HomePart[2].i = 0
        /\ IF HomePart[2].arg = 0
           THEN /\ Len(HomePart) = 4
                /\ Sent(HomePart[3], "SetGoal", 1, inits[2])
                /\ Sent(HomePart[4], "SetGoal", 2, inits[3])
           ELSE Len(HomePart) = 2

\* a home command (mode 1) whose poll reported the linear actuator stopped
C27_Witness ==
    /\ HomeLog
    /\ alog[1].op = "getc" /\ PacketMode(alog[1].arg) = 1
    /\ Len(HomePart) = 4
    /\ HomePart[2].arg = 0

===========================================================================
